---- MODULE Spec2Model ----
(***************************************************************************)
(* Model of the vision/voice assistant: the Flask API Gateway              *)
(* (app/backend/services/flask_app.py) and the Gradio Interactive Client   *)
(* (app/frontend/gradio_app.py).                                           *)
(*                                                                         *)
(* Conventions                                                             *)
(*  - a file name or path is a sequence of tokens; a token is one          *)
(*    character, except a uuid token ("u1") that stands for the 36         *)
(*    characters of str(uuid.uuid4()) and a path token ("/tmp/img.png");   *)
(*  - a speed is an integer number of tenths (12 is 1.2);                  *)
(*  - an absent form/JSON field is the value Absent;                       *)
(*  - the Capability Delegate (model_manager) is external: each of its     *)
(*    calls returns one of a small set of results or raises;              *)
(*  - Gateway requests run concurrently, a step per library or delegate    *)
(*    call; a Client handler starts with the values shown when its event   *)
(*    fires and its result is shown in a later step.                       *)
(***************************************************************************)
EXTENDS Integers, Sequences, FiniteSets, TLC

VARIABLES
    req,        \* request slot -> the handler's frame (inputs, locals, response)
    fs,         \* the file system: path -> size in bytes of an existing file
    usedUuids,  \* uuid tokens already produced by uuid.uuid4()
    cl          \* the Interactive Client's state

vars == <<req, fs, usedUuids, cl>>

----------------------------------------------------------------------------
(* Bounds *)
NumReq == 2
MaxUuid == 4
MaxStored == 3
MaxGroupLen == 2

Reqs == 1..NumReq

UuidTokens == <<"u1", "u2", "u3", "u4", "u5", "u6">>
UUIDs == {UuidTokens[i] : i \in 1..MaxUuid}

\* uuid.uuid4(): a value never returned before.  The values are
\* interchangeable, so the next unused token stands for whichever is drawn.
Uuid4(used) ==
    {UuidTokens[i] : i \in {j \in 1..MaxUuid :
        /\ UuidTokens[j] \notin used
        /\ \A k \in 1..(j - 1) : UuidTokens[k] \in used}}

----------------------------------------------------------------------------
(* Program constants *)
UPLOAD_FOLDER == <<"app/uploads">>
DefaultVoice == "af_heart"
DefaultSpeed == 10
MinHighPerfSpeed == 12

Absent == "<absent>"

----------------------------------------------------------------------------
(* Library functions used by the handlers *)

Max(a, b) == IF a >= b THEN a ELSE b

\* dict.get(key, default) / request.form.get(key, default)
Get(v, default) == IF v = Absent THEN default ELSE v

\* Python truthiness of a str-or-None field: `not x`
Falsy(v) == v = Absent \/ v = ""

\* float(x) for the tokens a request can carry; -1 stands for ValueError
FloatOf(tok) ==
    CASE tok = "0.8" -> 8
      [] tok = "1.0" -> 10
      [] tok = "1.2" -> 12
      [] tok = "1.5" -> 15
      [] OTHER -> -1

\* str.lower()
Lower(s) ==
    CASE s = "True" -> "true"
      [] s = "TRUE" -> "true"
      [] s = "False" -> "false"
      [] OTHER -> s

\* Python truthiness of a JSON value [type, val]
Truthy(j) ==
    CASE j.type = "absent" -> FALSE
      [] j.type = "bool" -> j.val = "true"
      [] j.type = "str" -> j.val # ""
      [] OTHER -> FALSE

\* werkzeug.utils.secure_filename, step by step
\* unicodedata.normalize("NFKD", s).encode("ascii", "ignore"), character by
\* character, for the characters up to U+00FF: a character with an ASCII
\* decomposition becomes it, any other non-ASCII character is dropped, an
\* ASCII character is kept
Latin1 ==
    {"", "", "", "", "", "", "", "", "", "", "", "", "", "",
     "", "", "", "", "", "", "", "", "", "", "", "", "", "",
     "", "", "", "", " ", "¡", "¢", "£", "¤", "¥", "¦", "§", "¨", "©",
     "ª", "«", "¬", "­", "®", "¯", "°", "±", "²", "³", "´", "µ", "¶", "·",
     "¸", "¹", "º", "»", "¼", "½", "¾", "¿", "À", "Á", "Â", "Ã", "Ä", "Å",
     "Æ", "Ç", "È", "É", "Ê", "Ë", "Ì", "Í", "Î", "Ï", "Ð", "Ñ", "Ò", "Ó",
     "Ô", "Õ", "Ö", "×", "Ø", "Ù", "Ú", "Û", "Ü", "Ý", "Þ", "ß", "à", "á",
     "â", "ã", "ä", "å", "æ", "ç", "è", "é", "ê", "ë", "ì", "í", "î", "ï",
     "ð", "ñ", "ò", "ó", "ô", "õ", "ö", "÷", "ø", "ù", "ú", "û", "ü", "ý",
     "þ", "ÿ"}

Nfkd(c) ==
    CASE c \in {" ", "¨", "¯", "´", "¸"} -> <<" ">>
      [] c \in {"ª", "à", "á", "â", "ã", "ä", "å"} -> <<"a">>
      [] c \in {"²"} -> <<"2">>
      [] c \in {"³"} -> <<"3">>
      [] c \in {"¹"} -> <<"1">>
      [] c \in {"º", "ò", "ó", "ô", "õ", "ö"} -> <<"o">>
      [] c \in {"¼"} -> <<"1", "4">>
      [] c \in {"½"} -> <<"1", "2">>
      [] c \in {"¾"} -> <<"3", "4">>
      [] c \in {"À", "Á", "Â", "Ã", "Ä", "Å"} -> <<"A">>
      [] c \in {"Ç"} -> <<"C">>
      [] c \in {"È", "É", "Ê", "Ë"} -> <<"E">>
      [] c \in {"Ì", "Í", "Î", "Ï"} -> <<"I">>
      [] c \in {"Ñ"} -> <<"N">>
      [] c \in {"Ò", "Ó", "Ô", "Õ", "Ö"} -> <<"O">>
      [] c \in {"Ù", "Ú", "Û", "Ü"} -> <<"U">>
      [] c \in {"Ý"} -> <<"Y">>
      [] c \in {"ç"} -> <<"c">>
      [] c \in {"è", "é", "ê", "ë"} -> <<"e">>
      [] c \in {"ì", "í", "î", "ï"} -> <<"i">>
      [] c \in {"ñ"} -> <<"n">>
      [] c \in {"ù", "ú", "û", "ü"} -> <<"u">>
      [] c \in {"ý", "ÿ"} -> <<"y">>
      [] c \in Latin1 -> <<>>
      [] OTHER -> <<c>>

RECURSIVE AsciiFold(_)
AsciiFold(s) == IF s = <<>> THEN <<>> ELSE Nfkd(Head(s)) \o AsciiFold(Tail(s))

\* filename.replace(os.sep, " ")
ReplaceSep(s) == [i \in 1..Len(s) |-> IF s[i] = "/" THEN " " ELSE s[i]]

\* "_".join(filename.split()): str.split() splits on the ASCII whitespace
\* \t \n \x0b \f \r \x1c \x1d \x1e \x1f and space
Whitespace == {" ", "\t", "\n", "\r", "\f", "", "", "", "", ""}

RECURSIVE SplitJoin(_, _, _)
SplitJoin(s, out, gap) ==
    IF s = <<>> THEN out
    ELSE IF Head(s) \in Whitespace THEN SplitJoin(Tail(s), out, out # <<>>)
    ELSE SplitJoin(Tail(s), (IF gap THEN Append(out, "_") ELSE out) \o <<Head(s)>>, FALSE)

\* the characters [A-Za-z0-9_.-] of _filename_ascii_strip_re; a uuid token is
\* made of the characters [0-9a-f-]
SafeChars ==
    {"A", "B", "C", "D", "E", "F", "G", "H", "I", "J", "K", "L", "M",
     "N", "O", "P", "Q", "R", "S", "T", "U", "V", "W", "X", "Y", "Z",
     "a", "b", "c", "d", "e", "f", "g", "h", "i", "j", "k", "l", "m",
     "n", "o", "p", "q", "r", "s", "t", "u", "v", "w", "x", "y", "z",
     "0", "1", "2", "3", "4", "5", "6", "7", "8", "9", "_", ".", "-"}
    \cup {UuidTokens[i] : i \in DOMAIN UuidTokens}

\* _filename_ascii_strip_re.sub("", s): every other character is removed
AsciiStrip(s) == SelectSeq(s, LAMBDA c : c \in SafeChars)

RECURSIVE LStrip(_)
LStrip(s) == IF s # <<>> /\ Head(s) \in {".", "_"} THEN LStrip(Tail(s)) ELSE s

RECURSIVE RStrip(_)
RStrip(s) ==
    IF s # <<>> /\ s[Len(s)] \in {".", "_"} THEN RStrip(SubSeq(s, 1, Len(s) - 1)) ELSE s

secure_filename(s) ==
    RStrip(LStrip(AsciiStrip(SplitJoin(ReplaceSep(AsciiFold(s)), <<>>, FALSE))))

\* os.path.join(a, b)
IsAbs(p) == p # <<>> /\ p[1] \in {"/", "/tmp/img.png", "/tmp/empty.png", "/tmp/missing.png"}
OsPathJoin(a, b) == IF IsAbs(b) THEN b ELSE a \o <<"/">> \o b

\* secure_filename(f"{uuid.uuid4()}_{file.filename}") joined to the upload folder
StoredName_NoUuid(u, name) == secure_filename(name)
StoredName(u, name) == secure_filename(<<u, "_">> \o name)
StoredPath(u, name) == OsPathJoin(UPLOAD_FOLDER, StoredName(u, name))

\* os.path.exists / os.path.getsize
Exists(p) == p \in DOMAIN fs
GetSize(p) == fs[p]
SizeOrMissing(p) == IF Exists(p) THEN GetSize(p) ELSE -1

\* file.save(path): the file at path now holds the upload's bytes
WriteFile(f, p, size) == [q \in DOMAIN f \cup {p} |-> IF q = p THEN size ELSE f[q]]

----------------------------------------------------------------------------
(* Request inputs *)

NoFile == [present |-> FALSE, name |-> <<>>, size |-> 0]
File(n, s) == [present |-> TRUE, name |-> n, size |-> s]

\* multipart file fields: absent, empty filename, named files (one empty)
FileInputs ==
    {NoFile, File(<<>>, 1), File(<<"a">>, 1), File(<<"a">>, 0), File(<<".", "/", "a">>, 1)}

\* form field image_path of generate_response: a path on the server's disk
ImagePathInputs == {Absent, "", "/tmp/img.png", "/tmp/missing.png", "/tmp/empty.png"}
QueryInputs == {Absent, "", "what is this"}
TextInputs == {Absent, "", "hello"}
VoiceInputs == {Absent, "bf_emma"}
SpeedInputs == {Absent, "0.8", "1.2", "1.5", "fast"}
FormFlagInputs == {Absent, "true", "True", "false"}

JAbsent == [type |-> "absent", val |-> ""]
JBool(b) == [type |-> "bool", val |-> b]
JStr(s) == [type |-> "str", val |-> s]
JsonFlagInputs == {JAbsent, JBool("true"), JBool("false"), JStr("false")}
BodyInputs == {"object", "invalid"}

NoInput ==
    [audio |-> NoFile, image |-> NoFile, image_path |-> Absent, query |-> Absent,
     body |-> "none", text |-> Absent, voice |-> Absent, speed |-> Absent,
     hp |-> Absent, hpj |-> JAbsent]

----------------------------------------------------------------------------
(* Capability Delegate (model_manager): possible outcomes of its operations *)

ExcMsgs == {"boom"}
TranscribeResults == {"what is this"}
AnswerResults == {"a cat"}
SynthNames == {<<"tts.wav">>}
SynthEffects == {"written", "empty", "none"}

VoiceIds == {"af_heart", "bf_emma"}
Languages == {"English (African)", "English (British)"}

Descriptor(id) ==
    IF id = "af_heart"
    THEN [name |-> "Heart", gender |-> "Female", id |-> ""]
    ELSE [name |-> "Emma", gender |-> "Female", id |-> ""]

\* get_available_voices(): voice id -> descriptor
VoiceCatalogs == {[i \in ids |-> Descriptor(i)] : ids \in {{"af_heart"}, VoiceIds}}

\* get_voices_by_language(): language -> list of voice ids
GroupLists == UNION {[1..n -> VoiceIds] : n \in 0..MaxGroupLen}
Groupings == [Languages -> GroupLists]

\* the groupings in which the first language has its voice and the second
\* has its own voice or none
PlainGroupings ==
    {g \in Groupings :
        /\ g["English (African)"] = <<"af_heart">>
        /\ g["English (British)"] \in {<<>>, <<"bf_emma">>}}

----------------------------------------------------------------------------
(* Handler frames and responses *)

NoBody ==
    [keys |-> {}, error |-> "", details |-> "", transcription |-> "", response |-> "",
     audio_response |-> <<>>, audio_path |-> <<>>, voices |-> <<>>, groups |-> <<>>]

IdleFrame ==
    [ep |-> "none", pc |-> "idle", in |-> NoInput, speed |-> 0, voice |-> "",
     image_path |-> <<>>, audio_path |-> <<>>, transcription |-> "",
     response_text |-> "", audio_response_path |-> <<>>,
     voices_by_language |-> <<>>, voices_data |-> <<>>, calls |-> <<>>,
     raised |-> "", status |-> 0, nresp |-> 0, body |-> NoBody]

NewFrame(ep, in) == [IdleFrame EXCEPT !.ep = ep, !.in = in]

\* return jsonify(body), status
Return(f, status, body) ==
    [f EXCEPT !.pc = "done", !.status = status, !.nresp = @ + 1, !.body = body]

\* return jsonify({'error': msg}), 400
Return400(f, msg) == Return(f, 400, [NoBody EXCEPT !.keys = {"error"}, !.error = msg])

ErrorText(ep) ==
    CASE ep = "transcribe" -> "An error occurred during transcription."
      [] ep = "generate_response" -> "An error occurred while generating the response."
      [] ep = "text_to_speech" -> "An error occurred during text-to-speech conversion."
      [] ep = "voices" -> "An error occurred while retrieving voices."
      [] ep = "voices_by_language" -> "An error occurred while retrieving voices by language."
      [] OTHER -> "An internal error occurred. Please try again later."

\* except Exception as e: return jsonify({'error': ..., 'details': str(e)}), 500
Except_Partial(f, e) ==
    Return(f, 500, [NoBody EXCEPT !.keys = {"error", "transcription"},
                                  !.error = ErrorText(f.ep),
                                  !.transcription = f.transcription])
Except(f, e) ==
    Return(f, 500, [NoBody EXCEPT !.keys = {"error", "details"},
                                  !.error = ErrorText(f.ep), !.details = e])

\* an exception e raised inside the try block reaches the handler's except clause
Raise(f, e) == Except([f EXCEPT !.raised = e], e)

\* one call of a delegate operation, with the state of the file it is handed
Call(op, path, text, voice, speed) ==
    [op |-> op, path |-> path, text |-> text, voice |-> voice, speed |-> speed,
     fsize |-> IF path = <<>> THEN -1 ELSE SizeOrMissing(path), exc |-> ""]

\* the call raised e
Raised(c, e) == [c EXCEPT !.exc = e]

Invoke(f, c) == [f EXCEPT !.calls = Append(@, c)]

----------------------------------------------------------------------------
(* Exceptions raised by the library calls of the handlers *)
IOErrorMsg == "[Errno 28] No space left on device"
\* str(ValueError) of float(tok): the message quotes the rejected string
ValueErrorMsg(tok) ==
    IF tok = "fast" THEN "could not convert string to float: 'fast'"
    ELSE "could not convert string to float: ''"
BadBodyMsg == "415 Unsupported Media Type"

----------------------------------------------------------------------------
(* POST /api/transcribe *)

\* lines 24-35: validation and the choice of the stored name
TranscribeBegin(r, files) ==
    /\ req[r].pc = "idle"
    /\ \E audio \in files :
         LET f == NewFrame("transcribe", [NoInput EXCEPT !.audio = audio]) IN
         IF ~audio.present
         THEN /\ req' = [req EXCEPT ![r] = Return400(f, "No audio file provided")]
              /\ UNCHANGED usedUuids
         ELSE IF audio.name = <<>>
         THEN /\ req' = [req EXCEPT ![r] = Return400(f, "Empty audio filename")]
              /\ UNCHANGED usedUuids
         ELSE \E u \in Uuid4(usedUuids) :
                /\ usedUuids' = usedUuids \cup {u}
                /\ req' = [req EXCEPT ![r] =
                       [f EXCEPT !.pc = "save_audio",
                                 !.audio_path = StoredPath(u, audio.name)]]
    /\ UNCHANGED <<fs, cl>>

\* audio_file.save(audio_path), lines 36 and 184
SaveAudio(r) ==
    /\ req[r].pc = "save_audio"
    /\ \/ /\ fs' = WriteFile(fs, req[r].audio_path, req[r].in.audio.size)
          /\ req' = [req EXCEPT ![r].pc = "transcribe"]
       \/ /\ req' = [req EXCEPT ![r] = Raise(@, IOErrorMsg)]
          /\ UNCHANGED fs
    /\ UNCHANGED <<usedUuids, cl>>

\* model_manager.transcribe_audio(audio_path), lines 39-44 and 187
CallTranscribe(r) ==
    /\ req[r].pc = "transcribe"
    /\ LET c == Call("transcribe", req[r].audio_path, "", "", 0) IN
       \/ \E t \in TranscribeResults :
            LET f == [Invoke(req[r], c) EXCEPT !.transcription = t] IN
            req' = [req EXCEPT ![r] =
                IF f.ep = "transcribe"
                THEN Return(f, 200, [NoBody EXCEPT !.keys = {"transcription", "audio_path"},
                                                   !.transcription = t,
                                                   !.audio_path = f.audio_path])
                ELSE [f EXCEPT !.pc = "answer"]]
       \/ \E e \in ExcMsgs :
            req' = [req EXCEPT ![r] = Raise(Invoke(@, Raised(c, e)), e)]
    /\ UNCHANGED <<fs, usedUuids, cl>>

----------------------------------------------------------------------------
(* POST /api/generate_response *)

\* lines 54-64: validation
GenerateBegin(r, paths, queries) ==
    /\ req[r].pc = "idle"
    /\ \E ip \in paths, q \in queries :
         LET f == NewFrame("generate_response",
                           [NoInput EXCEPT !.image_path = ip, !.query = q]) IN
         req' = [req EXCEPT ![r] =
             IF Falsy(ip) THEN Return400(f, "No image provided")
             ELSE IF Falsy(q) THEN Return400(f, "No query provided")
             ELSE [f EXCEPT !.pc = "answer", !.image_path = <<ip>>, !.transcription = q]]
    /\ UNCHANGED <<fs, usedUuids, cl>>

\* model_manager.process_image_and_query(image_path, query), lines 67-71 and 190
CallAnswer_Swallow(r) ==
    /\ req[r].pc = "answer"
    /\ LET c == Call("answer", req[r].image_path, req[r].transcription, "", 0) IN
       \/ \E a \in AnswerResults :
            LET f == [Invoke(req[r], c) EXCEPT !.response_text = a] IN
            req' = [req EXCEPT ![r] =
                IF f.ep = "generate_response"
                THEN Return(f, 200, [NoBody EXCEPT !.keys = {"response"}, !.response = a])
                ELSE [f EXCEPT !.pc = "synth"]]
       \/ \E e \in ExcMsgs :
            req' = [req EXCEPT ![r] =
                IF req[r].ep = "generate_response"
                THEN Raise(Invoke(@, Raised(c, e)), e)
                ELSE [Invoke(@, Raised(c, e)) EXCEPT !.pc = "synth"]]
    /\ UNCHANGED <<fs, usedUuids, cl>>
CallAnswer(r) ==
    /\ req[r].pc = "answer"
    /\ LET c == Call("answer", req[r].image_path, req[r].transcription, "", 0) IN
       \/ \E a \in AnswerResults :
            LET f == [Invoke(req[r], c) EXCEPT !.response_text = a] IN
            req' = [req EXCEPT ![r] =
                IF f.ep = "generate_response"
                THEN Return(f, 200, [NoBody EXCEPT !.keys = {"response"}, !.response = a])
                ELSE [f EXCEPT !.pc = "synth"]]
       \/ \E e \in ExcMsgs :
            req' = [req EXCEPT ![r] = Raise(Invoke(@, Raised(c, e)), e)]
    /\ UNCHANGED <<fs, usedUuids, cl>>

----------------------------------------------------------------------------
(* POST /api/text_to_speech *)

\* float(data.get('speed', 1.0)); -1 stands for the ValueError
ParseSpeed(tok) == IF tok = Absent THEN DefaultSpeed ELSE FloatOf(tok)

\* if high_performance: speed = max(speed, 1.2)
EffectiveSpeed(hp, speed) == IF hp THEN Max(speed, MinHighPerfSpeed) ELSE speed

\* lines 81-93: reading the JSON body, validation, the speed floor
TtsBegin(r, bodies, texts, voices, speeds, flags) ==
    /\ req[r].pc = "idle"
    /\ \E b \in bodies, t \in texts, v \in voices, sp \in speeds, hp \in flags :
         LET in == IF b = "object"
                   THEN [NoInput EXCEPT !.body = b, !.text = t, !.voice = v,
                                        !.speed = sp, !.hpj = hp]
                   ELSE [NoInput EXCEPT !.body = b]
             f == NewFrame("text_to_speech", in)
             speed == ParseSpeed(in.speed)
             high_performance == Truthy(in.hpj)
         IN  req' = [req EXCEPT ![r] =
                 IF in.body # "object" THEN Raise(f, BadBodyMsg)
                 ELSE IF speed < 0 THEN Raise(f, ValueErrorMsg(in.speed))
                 ELSE IF Falsy(in.text) THEN Return400(f, "No text provided")
                 ELSE [f EXCEPT !.pc = "synth",
                                !.response_text = in.text,
                                !.voice = Get(in.voice, DefaultVoice),
                                !.speed = EffectiveSpeed(high_performance, speed)]]
    /\ UNCHANGED <<fs, usedUuids, cl>>

\* model_manager.text_to_speech(text, voice=voice, speed=speed), lines 96 and 193-200
CallSynth(r) ==
    /\ req[r].pc = "synth"
    /\ LET c == Call("synth", <<>>, req[r].response_text, req[r].voice, req[r].speed) IN
       \/ \E n \in SynthNames, eff \in SynthEffects :
            LET f == [Invoke(req[r], c) EXCEPT !.audio_response_path = n]
                out == OsPathJoin(UPLOAD_FOLDER, n)
            IN  /\ fs' = CASE eff = "written" -> WriteFile(fs, out, 1)
                           [] eff = "empty" -> WriteFile(fs, out, 0)
                           [] OTHER -> fs
                /\ req' = [req EXCEPT ![r] =
                       IF f.ep = "text_to_speech"
                       THEN [f EXCEPT !.pc = "verify"]
                       ELSE Return(f, 200,
                                [NoBody EXCEPT
                                    !.keys = {"transcription", "response", "audio_response"},
                                    !.transcription = f.transcription,
                                    !.response = f.response_text,
                                    !.audio_response = n])]
       \/ \E e \in ExcMsgs :
            /\ req' = [req EXCEPT ![r] = Raise(Invoke(@, Raised(c, e)), e)]
            /\ UNCHANGED fs
    /\ UNCHANGED <<usedUuids, cl>>

\* line 100: not os.path.exists(p) or os.path.getsize(p) == 0
MissingOrEmpty_MissingOnly(p) == ~Exists(p)
MissingOrEmpty(p) == ~Exists(p) \/ GetSize(p) = 0

\* lines 98-105: the synthesized file must exist and be non-empty
VerifyAudio(r) ==
    /\ req[r].pc = "verify"
    /\ LET audio_full_path == OsPathJoin(UPLOAD_FOLDER, req[r].audio_response_path) IN
       req' = [req EXCEPT ![r] =
           IF MissingOrEmpty(audio_full_path)
           THEN Return(@, 500,
                    [NoBody EXCEPT !.keys = {"error"},
                        !.error = "Audio generation failed. The audio file is missing or empty."])
           ELSE Return(@, 200, [NoBody EXCEPT !.keys = {"audio_response"},
                                              !.audio_response = req[r].audio_response_path])]
    /\ UNCHANGED <<fs, usedUuids, cl>>

----------------------------------------------------------------------------
(* GET /api/voices and GET /api/voices_by_language *)

\* jsonify(voices)
VoicesBody(voices) == [NoBody EXCEPT !.keys = DOMAIN voices, !.voices = voices]

\* lines 115-121
GetVoices(r) ==
    /\ req[r].pc = "idle"
    /\ LET f == NewFrame("voices", NoInput)
           c == Call("voices", <<>>, "", "", 0)
       IN  \/ \E voices \in VoiceCatalogs :
                req' = [req EXCEPT ![r] =
                    Return([Invoke(f, c) EXCEPT !.voices_data = voices], 200, VoicesBody(voices))]
           \/ \E e \in ExcMsgs :
                req' = [req EXCEPT ![r] = Raise(Invoke(f, Raised(c, e)), e)]
    /\ UNCHANGED <<fs, usedUuids, cl>>

\* lines 133-138: the entries of one language, in the order of voice_ids
VoicesInfo_DropLast(voice_ids, voices_data) ==
    LET known == SelectSeq(voice_ids, LAMBDA id : id \in DOMAIN voices_data)
    IN  [i \in 1..(Len(known) - 1) |-> [voices_data[known[i]] EXCEPT !.id = known[i]]]
VoicesInfo(voice_ids, voices_data) ==
    LET known == SelectSeq(voice_ids, LAMBDA id : id \in DOMAIN voices_data)
    IN  [i \in 1..Len(known) |-> [voices_data[known[i]] EXCEPT !.id = known[i]]]

\* lines 131-139
GroupedResponse(voices_by_language, voices_data) ==
    [language \in DOMAIN voices_by_language |->
        VoicesInfo(voices_by_language[language], voices_data)]

\* lines 126-145
GetVoicesByLanguage(r, groupings) ==
    /\ req[r].pc = "idle"
    /\ LET f == NewFrame("voices_by_language", NoInput)
           c1 == Call("voices_by_language", <<>>, "", "", 0)
           c2 == Call("voices", <<>>, "", "", 0)
       IN  \/ \E g \in groupings, voices \in VoiceCatalogs :
                LET response == GroupedResponse(g, voices) IN
                req' = [req EXCEPT ![r] =
                    Return([Invoke(Invoke(f, c1), c2) EXCEPT !.voices_by_language = g,
                                                             !.voices_data = voices],
                           200, [NoBody EXCEPT !.keys = DOMAIN response, !.groups = response])]
           \/ \E e \in ExcMsgs :
                req' = [req EXCEPT ![r] = Raise(Invoke(f, Raised(c1, e)), e)]
           \/ \E e \in ExcMsgs :
                req' = [req EXCEPT ![r] = Raise(Invoke(Invoke(f, c1), Raised(c2, e)), e)]
    /\ UNCHANGED <<fs, usedUuids, cl>>

----------------------------------------------------------------------------
(* POST /api/process *)

\* request.form.get('high_performance', 'false').lower() == 'true'
FormFlag(v) == Lower(Get(v, "false")) = "true"

\* lines 150-181: validation, optional parameters, the two stored names
ProcessBegin(r, images, audios, voices, speeds, flags) ==
    /\ req[r].pc = "idle"
    /\ \E image \in images, audio \in audios, v \in voices, sp \in speeds, hp \in flags :
         LET in == [NoInput EXCEPT !.image = image, !.audio = audio, !.voice = v,
                                   !.speed = sp, !.hp = hp]
             f == NewFrame("process", in)
             speed == ParseSpeed(sp)
         IN  IF ~image.present
             THEN /\ req' = [req EXCEPT ![r] = Return400(f, "No image file provided")]
                  /\ UNCHANGED usedUuids
             ELSE IF image.name = <<>>
             THEN /\ req' = [req EXCEPT ![r] = Return400(f, "Empty image filename")]
                  /\ UNCHANGED usedUuids
             ELSE IF ~audio.present
             THEN /\ req' = [req EXCEPT ![r] = Return400(f, "No audio file provided")]
                  /\ UNCHANGED usedUuids
             ELSE IF audio.name = <<>>
             THEN /\ req' = [req EXCEPT ![r] = Return400(f, "Empty audio filename")]
                  /\ UNCHANGED usedUuids
             ELSE IF speed < 0
             THEN /\ req' = [req EXCEPT ![r] = Raise(f, ValueErrorMsg(in.speed))]
                  /\ UNCHANGED usedUuids
             ELSE \E u1 \in Uuid4(usedUuids) :
                    \E u2 \in Uuid4(usedUuids \cup {u1}) :
                      /\ usedUuids' = usedUuids \cup {u1, u2}
                      /\ req' = [req EXCEPT ![r] =
                             [f EXCEPT !.pc = "save_image",
                                       !.voice = Get(v, DefaultVoice),
                                       !.speed = EffectiveSpeed(FormFlag(hp), speed),
                                       !.image_path = StoredPath(u1, image.name),
                                       !.audio_path = StoredPath(u2, audio.name)]]
    /\ UNCHANGED <<fs, cl>>

\* image_file.save(image_path), line 183
SaveImage(r) ==
    /\ req[r].pc = "save_image"
    /\ \/ /\ fs' = WriteFile(fs, req[r].image_path, req[r].in.image.size)
          /\ req' = [req EXCEPT ![r].pc = "save_audio"]
       \/ /\ req' = [req EXCEPT ![r] = Raise(@, IOErrorMsg)]
          /\ UNCHANGED fs
    /\ UNCHANGED <<usedUuids, cl>>

----------------------------------------------------------------------------
(* GET /api/health, lines 209-212 *)
Health(r) ==
    /\ req[r].pc = "idle"
    /\ req' = [req EXCEPT ![r] =
           Return(NewFrame("health", NoInput), 200, [NoBody EXCEPT !.keys = {"status"}])]
    /\ UNCHANGED <<fs, usedUuids, cl>>

\* the response has been sent: the worker is free for the next request
Close(r) ==
    /\ req[r].pc = "done"
    /\ req' = [req EXCEPT ![r] = IdleFrame]
    /\ UNCHANGED <<fs, usedUuids, cl>>

----------------------------------------------------------------------------
----------------------------------------------------------------------------
(* Interactive Client (gradio_app.py): texts *)
(* A text is a sequence of tokens; its first six characters are always    *)
(* single-character tokens, so that a prefix test reads characters.        *)

None == "<none>"

ErrorWord == <<"E", "r", "r", "o", "r">>
PleaseWord == <<"P", "l", "e", "a", "s", "e">>

\* str.startswith(prefix)
StartsWith(s, prefix) == Len(s) >= Len(prefix) /\ SubSeq(s, 1, Len(prefix)) = prefix

PleaseRecord == PleaseWord \o <<" record your question.">>
PleaseRecordFirst == PleaseWord \o <<" record your question first.">>
PleaseUpload == PleaseWord \o <<" upload an image first.">>
NoTranscription == <<"N", "o", " ", "t", "r", "a", "nscription available">>
NoResponse == <<"N", "o", " ", "r", "e", "s", "ponse available">>

\* f"Error: {response.status_code} - {response.text}"
ErrorStatus(status, text) == ErrorWord \o <<":", " ", status, " - ", text>>
\* f"Error communicating with backend: {str(e)}"
ErrorBackend(e) == ErrorWord \o <<" communicating with backend: ", e>>

WhatIsThis == <<"w", "h", "a", "t", " ", "i", "s this">>
ACat == <<"a", " ", "c", "a", "t">>

\* what the Gateway can answer to the client: 200 with a JSON object, another
\* status with a body, or no answer at all (requests raises)
Ok(field) == [kind |-> "ok", status |-> "200", has |-> TRUE, val |-> field, text |-> ""]
OkWithout == [kind |-> "ok", status |-> "200", has |-> FALSE, val |-> <<>>, text |-> ""]
Http(status) == [kind |-> "http", status |-> status, has |-> FALSE, val |-> <<>>,
                 text |-> "{\"error\": \"...\"}"]
NetExc == [kind |-> "exc", status |-> "", has |-> FALSE, val |-> <<>>,
           text |-> "Connection refused"]

\* the answers each handler tells apart: status 200 with the field it reads,
\* status 200 without it (the handler reads the field with a default, lines
\* 74, 120 and 180; the Gateway of this repository always sends the field,
\* flask_app.py lines 41-44, 69-71 and 103-108), another status, and an
\* exception of requests
TranscribeAnswers == {Ok(WhatIsThis), OkWithout, Http("500"), NetExc}
GenerateAnswers == {Ok(ACat), OkWithout, Http("500"), NetExc}
TtsAnswers == {Ok(<<"tts.wav">>), OkWithout, Http("500"), NetExc}

\* result.get(key, default)
JsonGet(answer, default) == IF answer.has THEN answer.val ELSE default

ImageInputs == {None, "/tmp/img.png"}
\* the positions of the speed slider: 1.0 and 1.5
SliderInputs == {10, 15}
\* the recording handed to the handler: none, a file, a file that is gone
AudioInputs == {None, "/tmp/rec.wav", "/tmp/gone.wav"}

\* open(path, 'rb') succeeds for the files on the client's disk
CanOpen(path) == path \in {"/tmp/rec.wav", "/tmp/img.png"}

NoCall == [url |-> "", text |-> <<>>, image_path |-> "", voice |-> "", speed |-> 0,
           file |-> ""]

\* f"{v['name']} ({v['gender']})"
DisplayName(v) == IF v.name = "Heart" THEN "Heart (Female)" ELSE "Emma (Female)"

\* lines 28-30: {display name: voice id} of one language; a later entry
\* with the same display name replaces an earlier one
VoiceDict(voices) ==
    LET names == {DisplayName(voices[i]) : i \in 1..Len(voices)}
        last(n) == CHOOSE i \in 1..Len(voices) :
                      /\ DisplayName(voices[i]) = n
                      /\ \A j \in 1..Len(voices) : DisplayName(voices[j]) = n => j <= i
    IN  [n \in names |-> voices[last(n)].id]

\* list(voices.keys()): the display names in insertion order
RECURSIVE KeyList(_)
KeyList(voices) ==
    IF voices = <<>> THEN <<>>
    ELSE LET n == DisplayName(Head(voices))
             rest == KeyList(Tail(voices))
         IN  <<n>> \o SelectSeq(rest, LAMBDA m : m # n)

FallbackCatalog ==
    [languages |-> <<"English (African)">>,
     options |-> ("English (African)" :> ("Heart (Female)" :> "af_heart")),
     keys |-> ("English (African)" :> <<"Heart (Female)">>)]

\* lines 20-42: the catalog cached at startup from GET /api/voices_by_language
LanguageOrder == <<"English (African)", "English (British)">>
CatalogOf(voices_by_language) ==
    [languages |-> LanguageOrder,
     options |-> [l \in DOMAIN voices_by_language |-> VoiceDict(voices_by_language[l])],
     keys |-> [l \in DOMAIN voices_by_language |-> KeyList(voices_by_language[l])]]

----------------------------------------------------------------------------
(* Interactive Client: startup and event handlers *)

Seq2Set(q) == {q[i] : i \in 1..Len(q)}

\* the event handlers of the interface, lines 259-283
Handlers ==
    {"transcribe_audio_query", "generate_model_response", "update_voice_options",
     "generate_audio_response"}

\* a handler that is not running
IdleRun ==
    [pc |-> "idle", out |-> <<>>, sent |-> NoCall, language |-> None,
     voice_selection |-> None, again |-> FALSE]

\* lines 230-243: the selectors show the first language and its first voice
ClientStart(catalog) ==
    LET first == catalog.languages[1] IN
    [catalog |-> catalog,
     image_input |-> None,
     transcription_output |-> <<>>, response_output |-> <<>>,
     language_dropdown |-> first,
     voice_choices |-> catalog.keys[first],
     voice_dropdown |-> IF catalog.keys[first] # <<>> THEN catalog.keys[first][1] ELSE None,
     speed_slider |-> DefaultSpeed,
     audio_output |-> <<>>,
     run |-> [h \in Handlers |-> IdleRun]]

\* the fallback (another status or an exception, lines 31-42), or what the
\* Gateway answers for any catalog pair of the delegate (lines 22-30)
StartupCatalogs ==
    {FallbackCatalog} \cup
    {CatalogOf(GroupedResponse(g, voices)) : g \in Groupings, voices \in VoiceCatalogs}

\* lines 58-85; open(audio, 'rb') at line 63 is outside the try block: when it
\* fails, the exception leaves the handler, which returns no text and sends
\* nothing
transcribe_audio_query(audio, answer) ==
    IF audio = None THEN [out |-> PleaseRecord, sent |-> NoCall, raised |-> FALSE]
    ELSE IF ~CanOpen(audio) THEN [out |-> <<>>, sent |-> NoCall, raised |-> TRUE]
    ELSE [out |-> CASE answer.kind = "ok" -> JsonGet(answer, NoTranscription)
                    [] answer.kind = "http" -> ErrorStatus(answer.status, answer.text)
                    [] OTHER -> ErrorBackend(answer.text),
          sent |-> [NoCall EXCEPT !.url = "/api/transcribe", !.file = audio],
          raised |-> FALSE]

\* lines 100-128
generate_model_response(image, transcription, answer) ==
    IF image = None THEN [out |-> PleaseUpload, sent |-> NoCall, raised |-> FALSE]
    ELSE IF transcription = <<>> \/ transcription = PleaseRecord
    THEN [out |-> PleaseRecordFirst, sent |-> NoCall, raised |-> FALSE]
    ELSE [out |-> CASE answer.kind = "ok" -> JsonGet(answer, NoResponse)
                    [] answer.kind = "http" -> ErrorStatus(answer.status, answer.text)
                    [] OTHER -> ErrorBackend(answer.text),
          sent |-> [NoCall EXCEPT !.url = "/api/generate_response",
                                  !.image_path = image, !.text = transcription],
          raised |-> FALSE]

\* lines 141-147: gr.update(choices=..., value=...)
update_voice_options(catalog, language) ==
    IF language \in DOMAIN catalog.options
    THEN LET voices == catalog.keys[language] IN
         [choices |-> voices, value |-> IF voices # <<>> THEN voices[1] ELSE None]
    ELSE [choices |-> <<>>, value |-> None]

\* line 162: the guard of generate_audio_response
Guarded(response_text) ==
    \/ response_text = <<>>
    \/ StartsWith(response_text, ErrorWord)
    \/ StartsWith(response_text, PleaseWord)

\* line 166: voices_options.get(language, {}).get(voice_selection, "af_heart")
VoiceId(catalog, language, voice_selection) ==
    IF language \in DOMAIN catalog.options
       /\ voice_selection \in DOMAIN catalog.options[language]
    THEN catalog.options[language][voice_selection]
    ELSE DefaultVoice

\* lines 162-191
generate_audio_response(catalog, response_text, language, voice_selection, speed, answer) ==
    IF Guarded(response_text) THEN [out |-> <<>>, sent |-> NoCall, raised |-> FALSE]
    ELSE [out |-> IF answer.kind = "ok" /\ JsonGet(answer, <<>>) # <<>>
                  THEN OsPathJoin(UPLOAD_FOLDER, JsonGet(answer, <<>>))
                  ELSE <<>>,
          sent |-> [NoCall EXCEPT !.url = "/api/text_to_speech",
                                  !.text = response_text,
                                  !.voice = VoiceId(catalog, language, voice_selection),
                                  !.speed = speed],
          raised |-> FALSE]

----------------------------------------------------------------------------
(* Interactive Client: events *)
(* An event sends the values its input components show at that moment to   *)
(* the handler.  The handler runs on its own thread, waits in requests.post *)
(* for the Gateway, and the interface writes what it returns to the output *)
(* component only after it returned; until then the user goes on acting    *)
(* and the other handlers run.  A handler runs one event at a time.        *)

\* the handler h has been started with what res says it does before it
\* returns: raise, return at once, or send a request and wait; the frame
\* keeps the arguments only of a handler that sent a request
Started(res, language, voice_selection) ==
    LET calling == ~res.raised /\ res.sent # NoCall IN
    [pc |-> IF res.raised THEN "raised"
            ELSE IF res.sent = NoCall THEN "returning" ELSE "waiting",
     out |-> IF ~res.raised /\ res.sent = NoCall THEN res.out ELSE <<>>,
     sent |-> res.sent,
     language |-> IF calling THEN language ELSE None,
     voice_selection |-> IF calling THEN voice_selection ELSE None,
     again |-> FALSE]

Running(h) == cl.run[h].pc # "idle"

\* the user picks or clears the image (gr.Image, lines 209-212)
SetImage ==
    /\ \E img \in ImageInputs : cl' = [cl EXCEPT !.image_input = img]
    /\ UNCHANGED <<req, fs, usedUuids>>

\* the user moves the speed slider (gr.Slider, lines 246-253)
SetSpeed ==
    /\ \E sp \in SliderInputs : cl' = [cl EXCEPT !.speed_slider = sp]
    /\ UNCHANGED <<req, fs, usedUuids>>

\* the user types into the transcription box or clears it: the box is an
\* input of process_btn.click and can be edited (gr.Textbox, line 220)
TypedQuestions == {<<>>, WhatIsThis}
EditTranscription ==
    /\ \E t \in TypedQuestions : cl' = [cl EXCEPT !.transcription_output = t]
    /\ UNCHANGED <<req, fs, usedUuids>>

\* the user types into the response box or clears it: the box is an input
\* of audio_btn.click and can be edited (gr.Textbox, line 226)
TypedResponses == {<<>>, ACat, NoResponse}
EditResponse ==
    /\ \E t \in TypedResponses : cl' = [cl EXCEPT !.response_output = t]
    /\ UNCHANGED <<req, fs, usedUuids>>

\* the user picks one of the offered voices (gr.Dropdown, lines 237-243)
SelectVoice ==
    /\ \E v \in Seq2Set(cl.voice_choices) : cl' = [cl EXCEPT !.voice_dropdown = v]
    /\ UNCHANGED <<req, fs, usedUuids>>

\* audio_input.stop_recording, lines 259-263: the handler starts
StopRecording ==
    /\ ~Running("transcribe_audio_query")
    /\ \E audio \in AudioInputs, answer \in TranscribeAnswers :
         LET res == transcribe_audio_query(audio, answer) IN
         cl' = [cl EXCEPT !.run["transcribe_audio_query"] = Started(res, None, None)]
    /\ UNCHANGED <<req, fs, usedUuids>>

\* the handler returned (or raised): the transcription box is written
TranscriptionShown ==
    /\ Running("transcribe_audio_query")
    /\ LET f == cl.run["transcribe_audio_query"] IN
       \E answer \in TranscribeAnswers :
         cl' = [cl EXCEPT
                  !.run["transcribe_audio_query"] = IdleRun,
                  !.transcription_output =
                      CASE f.pc = "raised" -> @
                        [] f.pc = "returning" -> f.out
                        [] OTHER -> transcribe_audio_query(f.sent.file, answer).out]
    /\ UNCHANGED <<req, fs, usedUuids>>

\* process_btn.click, lines 265-270: the handler starts
ProcessClick ==
    /\ ~Running("generate_model_response")
    /\ \E answer \in GenerateAnswers :
         LET res == generate_model_response(cl.image_input, cl.transcription_output, answer) IN
         cl' = [cl EXCEPT !.run["generate_model_response"] = Started(res, None, None)]
    /\ UNCHANGED <<req, fs, usedUuids>>

\* the handler returned: the response box is written
ResponseShown ==
    /\ Running("generate_model_response")
    /\ LET f == cl.run["generate_model_response"] IN
       \E answer \in GenerateAnswers :
         cl' = [cl EXCEPT
                  !.run["generate_model_response"] = IdleRun,
                  !.response_output =
                      IF f.pc = "returning" THEN f.out
                      ELSE generate_model_response(f.sent.image_path, f.sent.text, answer).out]
    /\ UNCHANGED <<req, fs, usedUuids>>

\* the user selects another language (language_dropdown.change, lines
\* 273-277).  The selector shows it at once.  The change event starts the
\* handler; when the handler is still running for an earlier change, the
\* event is held back and sent when that run has returned (an event
\* listener of .change lets the last event through after the pending one).
LanguageChange ==
    /\ \E l \in Seq2Set(cl.catalog.languages) \ {cl.language_dropdown} :
         cl' = [cl EXCEPT
                  !.language_dropdown = l,
                  !.run["update_voice_options"] =
                      IF Running("update_voice_options")
                      THEN [@ EXCEPT !.again = TRUE]
                      ELSE [IdleRun EXCEPT !.pc = "returning", !.language = l]]
    /\ UNCHANGED <<req, fs, usedUuids>>

\* the handler returned: its gr.update reaches the voice selector, and the
\* event held back meanwhile starts the handler with the language last
\* selected
VoiceOptionsShown ==
    /\ Running("update_voice_options")
    /\ LET f == cl.run["update_voice_options"]
           upd == update_voice_options(cl.catalog, f.language)
       IN  cl' = [cl EXCEPT
                    !.run["update_voice_options"] =
                        IF f.again
                        THEN [IdleRun EXCEPT !.pc = "returning",
                                             !.language = cl.language_dropdown]
                        ELSE IdleRun,
                    !.voice_choices = upd.choices,
                    !.voice_dropdown = upd.value]
    /\ UNCHANGED <<req, fs, usedUuids>>

\* audio_btn.click, lines 279-283: the handler starts
GenerateAudio ==
    /\ ~Running("generate_audio_response")
    /\ \E answer \in TtsAnswers :
         LET res == generate_audio_response(cl.catalog, cl.response_output,
                        cl.language_dropdown, cl.voice_dropdown, cl.speed_slider, answer) IN
         cl' = [cl EXCEPT !.run["generate_audio_response"] =
                    Started(res, cl.language_dropdown, cl.voice_dropdown)]
    /\ UNCHANGED <<req, fs, usedUuids>>

\* the handler returned: the audio player is written
AudioShown ==
    /\ Running("generate_audio_response")
    /\ LET f == cl.run["generate_audio_response"] IN
       \E answer \in TtsAnswers :
         cl' = [cl EXCEPT
                  !.run["generate_audio_response"] = IdleRun,
                  !.audio_output =
                      IF f.pc = "returning" THEN f.out
                      ELSE generate_audio_response(cl.catalog, f.sent.text, f.language,
                               f.voice_selection, f.sent.speed, answer).out]
    /\ UNCHANGED <<req, fs, usedUuids>>

----------------------------------------------------------------------------
(* Specifications *)

InitGateway ==
    /\ req = [r \in Reqs |-> IdleFrame]
    /\ fs = (<<"/tmp/img.png">> :> 1) @@ (<<"/tmp/empty.png">> :> 0)
    /\ usedUuids = {}

\* the Gateway alone: the Interactive Client is another process, not started
Init ==
    /\ InitGateway
    /\ cl = <<>>

\* uploads and form fields of /api/process
ProcessFileInputs == {NoFile, File(<<>>, 1), File(<<"a">>, 1), File(<<"a">>, 0)}
ProcessSpeedInputs == {Absent, "1.5", "fast"}
ProcessFlagInputs == {Absent, "True", "false"}

\* a request of any endpoint, with any of the inputs above; the catalogs of
\* the delegate are varied in SpecVoices below
Begin(r) ==
    \/ TranscribeBegin(r, FileInputs)
    \/ GenerateBegin(r, ImagePathInputs, QueryInputs)
    \/ TtsBegin(r, BodyInputs, TextInputs, VoiceInputs, SpeedInputs, JsonFlagInputs)
    \/ GetVoices(r)
    \/ GetVoicesByLanguage(r, PlainGroupings)
    \/ ProcessBegin(r, ProcessFileInputs, ProcessFileInputs, {Absent},
                    ProcessSpeedInputs, ProcessFlagInputs)
    \/ Health(r)

Step(r) ==
    \/ SaveImage(r)
    \/ SaveAudio(r)
    \/ CallTranscribe(r)
    \/ CallAnswer(r)
    \/ CallSynth(r)
    \/ VerifyAudio(r)
    \/ Close(r)

\* Requests are served concurrently, one worker thread each (app.run, line
\* 215); nothing in the handlers serialises them.  Handlers share only the
\* upload folder, which a request reaches only after it passed validation, and
\* what it writes there does not depend on its voice, speed or flag.  So the
\* first worker serves requests with any input while the second serves
\* well-formed upload and synthesis requests, one after the other, the steps
\* of the two interleaved in every order: every sequence of writes that any
\* number of concurrent requests can make around a request is made by the
\* second worker's requests.

\* Spec follows the Gateway until MaxStored uploads have been given a stored
\* name, enough for a process request next to, before or after a transcribe
\* request; pairs of process requests are in SpecConc.
Stored == Cardinality(usedUuids) <= MaxStored

FirstWorker(r) == r = 1
SecondWorker(r) == r = 2

BeginConcurrent(r) ==
    \/ TranscribeBegin(r, {File(<<"a">>, 1)})
    \/ TtsBegin(r, {"object"}, {"hello"}, {Absent}, {Absent}, {JAbsent})

Next ==
    \E r \in Reqs :
        \/ FirstWorker(r) /\ Begin(r) /\ Stored'
        \/ SecondWorker(r) /\ BeginConcurrent(r) /\ Stored'
        \/ Step(r)

Spec == Init /\ [][Next]_vars

\* the two catalog endpoints, for every catalog pair of the delegate; they
\* read and write nothing but the delegate's answers
NextVoices ==
    \E r \in Reqs :
        \/ FirstWorker(r) /\ GetVoicesByLanguage(r, Groupings)
        \/ SecondWorker(r) /\ GetVoices(r)
        \/ Close(r)

SpecVoices == Init /\ [][NextVoices]_vars

\* well-formed upload requests, all of files with the same original name,
\* served concurrently by NumReq workers
ValidFiles == {File(<<"a">>, 1)}

BeginValid(r) ==
    \/ TranscribeBegin(r, ValidFiles)
    \/ ProcessBegin(r, ValidFiles, ValidFiles, {Absent}, {Absent}, {Absent})

\* the steps of the two upload handlers
StepUpload(r) ==
    \/ SaveImage(r)
    \/ SaveAudio(r)
    \/ CallTranscribe(r)
    \/ CallAnswer(r)
    \/ CallSynth(r)
    \/ Close(r)

\* the server hands a request to the first free worker
FirstFree(r) == \A q \in Reqs : q < r => req[q].pc # "idle"

NextConc == \E r \in Reqs : (FirstFree(r) /\ BeginValid(r)) \/ StepUpload(r)

SpecConc == Init /\ [][NextConc]_vars

\* the Interactive Client, against any answer of the Gateway, its handlers
\* overlapping with each other and with the user's actions; the Gateway is
\* another process, present here only through its answers.  SpecClient is
\* the whole client.  Its behaviours are explored in two parts: the sessions
\* of a user who leaves the two selectors alone, and the sessions of a user
\* who types the response instead of recording and asking for it.
\* transcribe_audio_query and generate_model_response read and write the
\* recording, the image and the two text boxes only, update_voice_options
\* reads the language and writes the voice selector only, and
\* generate_audio_response, which reads both sides, is in both parts.  The
\* product of the two parts is too large to enumerate.
InitClient ==
    /\ req = <<>>
    /\ fs = <<>>
    /\ usedUuids = {}
    /\ cl \in {ClientStart(c) : c \in StartupCatalogs}

NextClient ==
    \/ SetImage
    \/ SetSpeed
    \/ EditTranscription
    \/ EditResponse
    \/ SelectVoice
    \/ StopRecording
    \/ TranscriptionShown
    \/ ProcessClick
    \/ ResponseShown
    \/ LanguageChange
    \/ VoiceOptionsShown
    \/ GenerateAudio
    \/ AudioShown

SpecClient == InitClient /\ [][NextClient]_vars

\* recording, question, response and speech, with the selectors as they are
\* after a startup without catalog
InitClientTexts ==
    /\ req = <<>>
    /\ fs = <<>>
    /\ usedUuids = {}
    /\ cl = ClientStart(FallbackCatalog)

NextClientTexts ==
    \/ SetImage
    \/ SetSpeed
    \/ EditTranscription
    \/ EditResponse
    \/ StopRecording
    \/ TranscriptionShown
    \/ ProcessClick
    \/ ResponseShown
    \/ GenerateAudio
    \/ AudioShown

SpecClientTexts == InitClientTexts /\ [][NextClientTexts]_vars

\* language, voice, speed and speech, after any startup, with the response
\* typed in
NextClientVoice ==
    \/ SetSpeed
    \/ EditResponse
    \/ SelectVoice
    \/ LanguageChange
    \/ VoiceOptionsShown
    \/ GenerateAudio
    \/ AudioShown

SpecClientVoice == InitClient /\ [][NextClientVoice]_vars

----------------------------------------------------------------------------
(* Properties of the Gateway *)

Done(r) == req[r].pc = "done"
Ops(f) == [i \in 1..Len(f.calls) |-> f.calls[i].op]

\* a required file or field is missing or empty
FileMissing(file) == ~file.present \/ file.name = <<>>
MissingRequired(f) ==
    CASE f.ep = "transcribe" -> FileMissing(f.in.audio)
      [] f.ep = "generate_response" -> Falsy(f.in.image_path) \/ Falsy(f.in.query)
      [] f.ep = "text_to_speech" -> Falsy(f.in.text)
      [] f.ep = "process" -> FileMissing(f.in.image) \/ FileMissing(f.in.audio)
      [] OTHER -> FALSE

\* C1: a request that misses a required file or field (or supplies it empty)
\* is answered 400 and no delegate operation is invoked, whatever its other
\* fields contain.
C1_MissingInputIs400 ==
    \A r \in Reqs :
        (Done(r) /\ MissingRequired(req[r])) =>
            (req[r].status = 400 /\ req[r].calls = <<>>)

\* the step in which worker r answers a text_to_speech request
TtsResponds(r) == req[r].pc # "done" /\ req'[r].pc = "done" /\ req'[r].ep = "text_to_speech"

\* C2: /api/text_to_speech answers 200 only after checking the file the
\* synthesis named, and only if that file exists and is non-empty at the time
\* of the check, whatever other requests wrote before; a missing or empty
\* file gives 500 without an audio_response.
C2_TtsChecksFile ==
    [][\A r \in Reqs :
          LET p == OsPathJoin(UPLOAD_FOLDER, req[r].audio_response_path) IN
          /\ (TtsResponds(r) /\ req'[r].status = 200) =>
                 /\ req[r].pc = "verify"
                 /\ Exists(p) /\ GetSize(p) > 0
                 /\ req'[r].body.audio_response = req[r].audio_response_path
          /\ (TtsResponds(r) /\ req[r].pc = "verify" /\ ~(Exists(p) /\ GetSize(p) > 0)) =>
                 /\ req'[r].status = 500
                 /\ "audio_response" \notin req'[r].body.keys
      ]_vars

\* a text_to_speech request answered 500 because the synthesized file was
\* empty or missing when it was checked
C2_Witness ==
    \E r \in Reqs :
        /\ Done(r) /\ req[r].ep = "text_to_speech" /\ Ops(req[r]) = <<"synth">>
        /\ req[r].raised = "" /\ req[r].status = 500
        /\ req[r].body.error = "Audio generation failed. The audio file is missing or empty."

\* the request sets highPerformance to true / the speed it asks for
SetsFlagTrue(f) ==
    IF f.ep = "process" THEN f.in.hp \in {"true", "True"} ELSE f.in.hpj = JBool("true")
RequestedSpeed(f) == ParseSpeed(f.in.speed)

\* C3: the speed handed to the synthesis is max(requested, 1.2) when the
\* request sets highPerformance to true, and the requested speed otherwise.
C3_SpeedFloor ==
    \A r \in Reqs :
        \A i \in 1..Len(req[r].calls) :
            req[r].calls[i].op = "synth" =>
                req[r].calls[i].speed =
                    IF SetsFlagTrue(req[r])
                    THEN Max(RequestedSpeed(req[r]), MinHighPerfSpeed)
                    ELSE RequestedSpeed(req[r])

\* the stored paths a handler has chosen
StoredPaths(f) ==
    IF f.ep \in {"transcribe", "process"}
    THEN {p \in {f.image_path, f.audio_path} : p # <<>>}
    ELSE {}

DistinctStoredPaths ==
    /\ \A r1, r2 \in Reqs : r1 # r2 => StoredPaths(req[r1]) \cap StoredPaths(req[r2]) = {}
    /\ \A r \in Reqs : req[r].ep = "process" /\ req[r].image_path # <<>> =>
                           req[r].image_path # req[r].audio_path

\* a save that succeeds in this step creates a file that did not exist
SaveCreates ==
    \A r \in Reqs :
        /\ (req[r].pc = "save_image" /\ req'[r].pc = "save_audio") =>
               ~Exists(req[r].image_path)
        /\ (req[r].pc = "save_audio" /\ req'[r].pc = "transcribe") =>
               ~Exists(req[r].audio_path)

\* C4: uploads with identical original filenames get distinct stored paths
\* and no save overwrites a file stored before, in any interleaving; the
\* image and the audio of one process request are stored apart.
C4_NoOverwrite == [][DistinctStoredPaths' /\ SaveCreates]_vars

\* the image and the audio of a process request are on disk
StoredBoth(r) ==
    /\ req[r].ep = "process"
    /\ req[r].image_path # <<>> /\ Exists(req[r].image_path)
    /\ req[r].audio_path # <<>> /\ Exists(req[r].audio_path)
    /\ req[r].in.image.name = req[r].in.audio.name

\* the audio of a transcribe request is on disk
StoredAudio(r) ==
    /\ req[r].ep = "transcribe"
    /\ req[r].audio_path # <<>> /\ Exists(req[r].audio_path)

\* two process requests served at the same time, all four files of the same
\* original name, are on disk in four files
C4_Witness ==
    \E r1, r2 \in Reqs :
        /\ r1 # r2
        /\ StoredBoth(r1) /\ StoredBoth(r2)
        /\ req[r1].in.image.name = req[r2].in.image.name
        /\ Cardinality({req[r1].image_path, req[r1].audio_path,
                        req[r2].image_path, req[r2].audio_path}) = 4

\* a process and a transcribe request served at the same time after an
\* earlier upload: four files of the same original name are on disk
C4_ProcessWithTranscribe ==
    \E r1, r2 \in Reqs :
        /\ StoredBoth(r1) /\ StoredAudio(r2)
        /\ req[r1].in.image.name = req[r2].in.audio.name
        /\ Cardinality({p \in DOMAIN fs : StartsWith(p, UPLOAD_FOLDER)}) >= 4

\* the voice ids of a grouped response, language after language
RECURSIVE FlatIds(_, _)
FlatIds(groups, langs) ==
    IF langs = <<>> THEN <<>>
    ELSE [i \in 1..Len(groups[Head(langs)]) |-> groups[Head(langs)][i].id]
             \o FlatIds(groups, Tail(langs))

RECURSIVE FlatGrouping(_, _)
FlatGrouping(g, langs) ==
    IF langs = <<>> THEN <<>> ELSE g[Head(langs)] \o FlatGrouping(g, Tail(langs))

Count(q, x) == Cardinality({i \in 1..Len(q) : q[i] = x})
NoDuplicates(q) == \A i, j \in 1..Len(q) : q[i] = q[j] => i = j

GroupedOk(r) == Done(r) /\ req[r].ep = "voices_by_language" /\ req[r].status = 200

\* the delegate's grouping lists every voice of its catalog exactly once
\* and nothing else
Partition(g, voices) ==
    /\ \A id \in DOMAIN voices : Count(FlatGrouping(g, LanguageOrder), id) = 1
    /\ Seq2Set(FlatGrouping(g, LanguageOrder)) \subseteq DOMAIN voices

\* C5 as stated: for every catalog pair of the delegate, the flattened
\* /api/voices_by_language response has exactly the voice ids of the
\* /api/voices response, none of them twice.
C5_Original ==
    \A r \in Reqs :
        GroupedOk(r) =>
            LET flat == FlatIds(req[r].body.groups, LanguageOrder) IN
            /\ Seq2Set(flat) = DOMAIN VoicesBody(req[r].voices_data).voices
            /\ NoDuplicates(flat)

\* C5 (amended): the flattened response holds only voice ids of the
\* /api/voices response, each as often as the delegate's grouping lists it;
\* when the grouping lists every voice of the catalog exactly once, the two
\* sets of ids are equal and no id is repeated.
C5_GroupingPreserved ==
    \A r \in Reqs :
        GroupedOk(r) =>
            LET flat == FlatIds(req[r].body.groups, LanguageOrder)
                ids == DOMAIN VoicesBody(req[r].voices_data).voices
                g == FlatGrouping(req[r].voices_by_language, LanguageOrder)
            IN  /\ Seq2Set(flat) \subseteq ids
                /\ \A id \in ids : Count(flat, id) = Count(g, id)
                /\ Partition(req[r].voices_by_language, req[r].voices_data) =>
                       (Seq2Set(flat) = ids /\ NoDuplicates(flat))

\* a grouped response for a catalog of two voices in two languages
C5_Witness ==
    \E r \in Reqs :
        /\ GroupedOk(r)
        /\ Partition(req[r].voices_by_language, req[r].voices_data)
        /\ DOMAIN req[r].voices_data = VoiceIds
        /\ \A l \in Languages : Len(req[r].body.groups[l]) = 1

IsPrefix(p, q) == Len(p) <= Len(q) /\ SubSeq(q, 1, Len(p)) = p
StageOrder == <<"transcribe", "answer", "synth">>
PartialKeys == {"transcription", "response", "audio_response"}

\* C6: /api/process runs transcribe, answerQuery(image, transcription) and
\* synthesize(response, voice, speed) in this order, each after the previous
\* one returned; a failing stage ends the request with 500 and the
\* exception's message, no later stage, no partial result, and the stored
\* files stay on disk.
C6_ProcessStages ==
    \A r \in Reqs :
        req[r].ep = "process" =>
            LET f == req[r] IN
            /\ IsPrefix(Ops(f), StageOrder)
            /\ \A i \in 1..Len(f.calls) :
                 /\ i < Len(f.calls) => f.calls[i].exc = ""
                 /\ f.calls[i].op = "transcribe" => f.calls[i].path = f.audio_path
                 /\ f.calls[i].op = "answer" =>
                        /\ f.calls[i].path = f.image_path
                        /\ f.calls[i].text = f.transcription
                 /\ f.calls[i].op = "synth" =>
                        /\ f.calls[i].text = f.response_text
                        /\ f.calls[i].voice = f.voice
                        /\ f.calls[i].speed = f.speed
                 /\ f.calls[i].exc # "" =>
                        /\ f.pc = "done" /\ f.status = 500
                        /\ f.body.details = f.calls[i].exc
                        /\ f.body.keys \cap PartialKeys = {}
                        /\ Exists(f.image_path) /\ GetSize(f.image_path) = f.in.image.size
                        /\ Exists(f.audio_path) /\ GetSize(f.audio_path) = f.in.audio.size

\* a process request whose second stage failed
C6_Witness ==
    \E r \in Reqs :
        /\ req[r].ep = "process" /\ Done(r)
        /\ Ops(req[r]) = <<"transcribe", "answer">>
        /\ req[r].calls[2].exc # ""

\* C7: every 200 of /api/process names a synthesized file that exists and
\* is non-empty.
C7_ProcessAudioExists ==
    \A r \in Reqs :
        (Done(r) /\ req[r].ep = "process" /\ req[r].status = 200) =>
            LET p == OsPathJoin(UPLOAD_FOLDER, req[r].body.audio_response) IN
            Exists(p) /\ GetSize(p) > 0

\* C8: every file path handed to a delegate operation names a file that
\* exists and is non-empty when the call is made.
C8_DelegatePathsValid ==
    \A r \in Reqs :
        \A i \in 1..Len(req[r].calls) :
            req[r].calls[i].op \in {"transcribe", "answer"} => req[r].calls[i].fsize > 0

\* C9: an exception raised by a delegate call or by file I/O ends the
\* request with exactly one response, 500 with error and the exception text
\* as details; no delegate operation is invoked twice in a request and a
\* request in which an exception occurred never answers 200.
C9_ExceptionIs500 ==
    \A r \in Reqs :
        LET f == req[r] IN
        /\ f.nresp = (IF f.pc = "done" THEN 1 ELSE 0)
        /\ NoDuplicates(Ops(f))
        /\ \A i \in 1..Len(f.calls) : f.calls[i].exc # "" => f.raised = f.calls[i].exc
        /\ f.raised # "" =>
               /\ f.pc = "done" /\ f.status = 500
               /\ f.body.keys = {"error", "details"}
               /\ f.body.error = ErrorText(f.ep)
               /\ f.body.details = f.raised

\* a request whose delegate call raised
C9_Witness ==
    \E r \in Reqs :
        /\ Done(r) /\ req[r].calls # <<>>
        /\ req[r].calls[Len(req[r].calls)].exc # ""
        /\ req[r].status = 500

\* the error and placeholder texts generate_model_response produces itself
ClientTexts ==
    {PleaseUpload, PleaseRecordFirst, NoResponse, ErrorBackend(NetExc.text)}
        \cup {ErrorStatus(a.status, a.text) : a \in {Http("400"), Http("500")}}

\* the call the handler h is waiting for, NoCall when there is none
InFlight(h) == IF cl.run[h].pc = "waiting" THEN cl.run[h].sent ELSE NoCall

\* C10: "generate audio" sends no text-to-speech request when the response
\* text is empty or one of the client's own error or placeholder texts.
C10_NoSpeechForPlaceholder ==
    LET call == InFlight("generate_audio_response") IN
    call.url = "/api/text_to_speech" =>
        (call.text # <<>> /\ call.text \notin ClientTexts)

\* C11: "process" sends a generate-response request only when the
\* transcription is not an error or placeholder text: a text that starts
\* with "Error" or "Please" is never sent to the Gateway as the query.
C11_NoQueryForErrorText ==
    LET call == InFlight("generate_model_response") IN
    call.url = "/api/generate_response" =>
        /\ ~StartsWith(call.text, ErrorWord)
        /\ ~StartsWith(call.text, PleaseWord)

\* the voice ids the cached catalog lists under a language
LanguageIds(catalog, language) ==
    {catalog.options[language][n] : n \in DOMAIN catalog.options[language]}

\* a synthesis request carries the id the cached catalog gives the display
\* name selected under the language selected when the action was taken
VoiceOfLanguage ==
    LET f == cl.run["generate_audio_response"] IN
    f.pc = "waiting" =>
        /\ f.voice_selection \in DOMAIN cl.catalog.options[f.language]
        /\ f.sent.voice = cl.catalog.options[f.language][f.voice_selection]
        /\ f.sent.voice \in LanguageIds(cl.catalog, f.language)

\* the step after which no language change is being handled shows the
\* options of the language selected and selects its first voice (or none);
\* no call is made
LanguageChanged ==
    (cl.run["update_voice_options"].pc # "idle"
        /\ cl'.run["update_voice_options"].pc = "idle") =>
        LET names == cl'.catalog.keys[cl'.language_dropdown] IN
        /\ cl.run["update_voice_options"].sent = NoCall
        /\ cl'.voice_choices = names
        /\ Seq2Set(names) = DOMAIN cl'.catalog.options[cl'.language_dropdown]
        /\ cl'.voice_dropdown = IF names = <<>> THEN None ELSE Head(names)

\* C12: the voice id of a synthesis request is the id the cached catalog
\* gives the selected display name under the selected language, hence a
\* voice of that language; a language change resets the voice options and
\* the default from the cached catalog without a network call.
C12_VoiceOfLanguage == [][VoiceOfLanguage' /\ LanguageChanged]_vars

====
